---- MODULE Spec2Model ----
(***************************************************************************)
(* Model of verify_secure_runner (src/src/vm/security.rs): the security    *)
(* pass run over a completed Cairo run before relocation.                  *)
(*                                                                         *)
(* Option<T> values are modelled as sequences of length <= 1:              *)
(*   None == <<>>,  Some(x) == <<x>>.                                      *)
(* Memory cells (Option<MaybeRelocatable>) are records tagged by kind.     *)
(* usize arithmetic is modelled on the naturals: stop_ptr and              *)
(* program.data.len() are bounded by the sizes of allocated memory, so     *)
(* `+ 1` cannot wrap.                                                      *)
(***************************************************************************)
EXTENDS Integers, Sequences, FiniteSets

(* ------------------------------ bounds --------------------------------- *)
\* Real segments in the store, cells over all real segments, registered builtins.
MaxSegs == 3
MaxCells == 2
MaxBuiltins == 2

(* --------------------------- value domains ----------------------------- *)
None == <<>>
Some(x) == <<x>>

NoneCell == [kind |-> "None"]
IntCell == [kind |-> "Int"]
Relocatable(s, o) == [kind |-> "RelocatableValue", segment_index |-> s, offset |-> o]

TemporaryAddresses == {Relocatable(-1, 0), Relocatable(-3, 2)}
RealAddresses == {Relocatable(1, 0)}
Cells == {NoneCell, IntCell} \cup TemporaryAddresses \cup RealAddresses

SeqsUpTo(S, n) == UNION {[1..k -> S] : k \in 0..n}

\* Sequences of exactly `segs` segments holding at most `cells` cells in all.
RECURSIVE MemoriesWith(_, _)
MemoriesWith(segs, cells) ==
    IF segs = 0 THEN {<<>>}
    ELSE UNION {{<<h>> \o t : t \in MemoriesWith(segs - 1, cells - Len(h))} :
                   h \in SeqsUpTo(Cells, cells)}

Memories == UNION {MemoriesWith(n, MaxCells) : n \in 0..MaxSegs}
\* No temporary segment, one without writes, one with a write.
TempMemories == {<<>>, << <<>> >>, << <<Relocatable(1, 2)>> >>}

ProgramBases == {None} \cup {Some([segment_index |-> s, offset |-> 0]) : s \in {-1, 0}}
ProgramLengths == {0, 1}
StopPtrs == {0, 1}
\* The k-th registered builtin owns real segment k (segment 0 holds the program).
BuiltinRunner(k) == [base : {k}, stop_ptr : StopPtrs]
BuiltinRunners == UNION {{f \in [1..n -> UNION {BuiltinRunner(k) : k \in 1..n}] :
                             \A k \in 1..n : f[k] \in BuiltinRunner(k)} : n \in 0..MaxBuiltins}

Ok == [kind |-> "Ok"]
Pending == [kind |-> "Pending"]
Err(k) == [kind |-> k]
\* Outcomes of a call to a collaborator that returns a Result.
Outcomes == {"ok", "err"}

VARIABLES program_base, program_len, verify_builtins, data, temp_data,
          builtin_runners, pc, index, result, steps, calls

config == <<program_base, program_len, verify_builtins, data, temp_data, builtin_runners>>
vars == <<program_base, program_len, verify_builtins, data, temp_data,
          builtin_runners, pc, index, result, steps, calls>>

(* ----------------------- helpers of the verifier ----------------------- *)
\* Vec::get(index): None when index is out of range (index is 0-based).
Get(v, i) == IF i >= 0 /\ i < Len(v) THEN Some(v[i + 1]) ELSE None

\* Option::map(|segment| segment.len())
MapLen(o) == IF o = None THEN None ELSE Some(Len(o[1]))

\* Variant: strict comparison in place of >=.
OptionGe_Strict(a, b) == IF b = None THEN a # None
                         ELSE IF a = None THEN FALSE
                         ELSE a[1] > b[1]

\* Option<usize> ordering derived by Rust: None < Some(_), Some(a) vs Some(b) by value.
OptionGe(a, b) == IF b = None THEN TRUE
                  ELSE IF a = None THEN FALSE
                  ELSE a[1] >= b[1]

\* isize::to_usize(): None for negative values.
ToUsize(i) == IF i >= 0 THEN Some(i) ELSE None

\* Variant: an unset base defaults to segment 0.
AndThenToUsize_Default(base) == IF base = None THEN Some(0) ELSE ToUsize(base[1].segment_index)

\* Option::and_then
AndThenToUsize(base) == IF base = None THEN None ELSE ToUsize(base[1].segment_index)

\* vm.memory.data.iter().flatten(): cells by ascending segment, then offset.
RECURSIVE Flatten(_)
Flatten(d) == IF d = <<>> THEN <<>> ELSE Head(d) \o Flatten(Tail(d))

\* Variant: the emptiness test never succeeds.
IsEmpty_Never(v) == FALSE

\* Vec::is_empty
IsEmpty(v) == v = <<>>

\* Variant: guard off by one (segment_index < -1).
IsTemporaryValue_OffByOne(value) == value.kind = "RelocatableValue" /\ value.segment_index < -1

\* The match arm guard of the scan.
IsTemporaryValue(value) == value.kind = "RelocatableValue" /\ value.segment_index < 0

\* Variant: the scan keeps going and reports the last matching cell.
RECURSIVE FirstTemporary_Last(_)
FirstTemporary_Last(cells) ==
    IF cells = <<>> THEN None
    ELSE LET rest == FirstTemporary_Last(Tail(cells))
         IN IF rest # None THEN rest
            ELSE IF (Head(cells).kind = "RelocatableValue" /\ Head(cells).segment_index < 0)
                 THEN Some(Head(cells))
                 ELSE None

\* First cell of the iteration matching the guard, as an Option.
RECURSIVE FirstTemporary(_)
FirstTemporary(cells) ==
    IF cells = <<>> THEN None
    ELSE IF IsTemporaryValue(Head(cells)) THEN Some(Head(cells))
    ELSE FirstTemporary(Tail(cells))

\* Ok value of runner.get_builtin_segments_info(vm): one (index, stop_ptr)
\* per registered builtin, in registration order.
GetBuiltinSegmentsInfo(runners) ==
    [k \in 1..Len(runners) |-> <<runners[k].base, runners[k].stop_ptr>>]

\* Variant: the bound is compared without the + 1.
BuiltinOutOfBounds_NoPlusOne(d, entry) ==
    LET current_size == IF entry[1] < Len(d) THEN Some(Len(d[entry[1] + 1])) ELSE None
    IN current_size # None /\ current_size[1] >= entry[2]

\* Body of the loop over builtins_segment_info: TRUE when the entry is out of bounds.
BuiltinOutOfBounds(d, entry) ==
    LET current_size == MapLen(Get(d, entry[1]))
    IN OptionGe(current_size, Some(entry[2] + 1))

\* Variant: the bound is compared without the + 1.
ProgramOutOfBounds_NoPlusOne(d, i, len) ==
    i < Len(d) /\ Len(d[i + 1]) >= len

ProgramOutOfBounds(d, i, len) ==
    LET program_segment_size == MapLen(Get(d, i))
    IN OptionGe(program_segment_size, Some(len + 1))

Call(f, k, r) == [fn |-> f, builtin |-> k, outcome |-> r]

(* ------------------------------- Init ---------------------------------- *)
Init ==
    /\ program_base \in ProgramBases
    /\ program_len \in ProgramLengths
    /\ verify_builtins \in BOOLEAN
    /\ data \in Memories
    /\ temp_data \in TempMemories
    /\ builtin_runners \in BuiltinRunners
    /\ pc = "builtin_bounds"
    /\ index = 0
    /\ result = Pending
    /\ steps = <<"builtin_bounds">>
    /\ calls = <<>>

Return(r) == /\ pc' = "done"
             /\ result' = r
             /\ UNCHANGED steps

Continue(next) == /\ pc' = next
                  /\ steps' = Append(steps, next)
                  /\ UNCHANGED result

(* ------------------------------ actions -------------------------------- *)
\* Variant: the bounds are fetched and compared whatever the flag.
CheckBuiltinSegments_IgnoringFlag ==
    /\ pc = "builtin_bounds"
    /\ UNCHANGED <<config, index>>
    /\ \E fetched \in Outcomes :
          /\ calls' = Append(calls, Call("get_builtin_segments_info", 0, fetched))
          /\ IF fetched = "err"
             THEN Return(Err("BuiltinSegmentsInfoError"))
             ELSE IF \E k \in 1..Len(builtin_runners) :
                        /\ builtin_runners[k].base < Len(data)
                        /\ Len(data[builtin_runners[k].base + 1]) > builtin_runners[k].stop_ptr
                  THEN Return(Err("OutOfBoundsBuiltinSegmentAccess"))
                  ELSE Continue("program_bounds")

\* security.rs lines 28-39.  The `?` on get_builtin_segments_info propagates
\* the Err the call may return.
CheckBuiltinSegments ==
    /\ pc = "builtin_bounds"
    /\ UNCHANGED <<config, index>>
    /\ IF verify_builtins
       THEN \E fetched \in Outcomes :
              /\ calls' = Append(calls, Call("get_builtin_segments_info", 0, fetched))
              /\ IF fetched = "err"
                 THEN Return(Err("BuiltinSegmentsInfoError"))
                 ELSE LET builtins_segment_info == GetBuiltinSegmentsInfo(builtin_runners)
                      IN IF \E k \in 1..Len(builtins_segment_info) :
                                BuiltinOutOfBounds(data, builtins_segment_info[k])
                         THEN Return(Err("OutOfBoundsBuiltinSegmentAccess"))
                         ELSE Continue("program_bounds")
       ELSE /\ UNCHANGED calls
            /\ Continue("program_bounds")

\* security.rs lines 40-53
CheckProgramSegment ==
    /\ pc = "program_bounds"
    /\ UNCHANGED <<config, calls, index>>
    /\ LET program_segment_index == AndThenToUsize(program_base)
       IN IF program_segment_index = None
          THEN Return(Err("NoProgBase"))
          ELSE IF ProgramOutOfBounds(data, program_segment_index[1], program_len)
               THEN Return(Err("OutOfBoundsProgramSegmentAccess"))
               ELSE Continue("temporary_addresses")

\* Variant: the scan clears the real memory it walks.
CheckTemporaryAddresses_Clearing ==
    /\ pc = "temporary_addresses"
    /\ UNCHANGED <<program_base, program_len, verify_builtins, temp_data, builtin_runners,
                   calls, index>>
    /\ data' = IF temp_data # <<>> THEN <<>> ELSE data
    /\ IF temp_data # <<>> /\ \E s \in DOMAIN data : \E o \in DOMAIN data[s] :
              data[s][o].kind = "RelocatableValue" /\ data[s][o].segment_index < 0
       THEN Return(Err("InvalidMemoryValueTemporaryAddress"))
       ELSE Continue("security_checks")

\* security.rs lines 54-68
CheckTemporaryAddresses ==
    /\ pc = "temporary_addresses"
    /\ UNCHANGED <<config, calls, index>>
    /\ IF ~IsEmpty(temp_data)
       THEN LET found == FirstTemporary(Flatten(data))
            IN IF found # None
               THEN Return([kind |-> "InvalidMemoryValueTemporaryAddress",
                            addr |-> [segment_index |-> found[1].segment_index,
                                      offset |-> found[1].offset]])
               ELSE Continue("security_checks")
       ELSE Continue("security_checks")

\* Variant: a failing security check does not end the loop.
RunSecurityCheck_NoStop ==
    /\ pc = "security_checks"
    /\ index < Len(builtin_runners)
    /\ UNCHANGED <<config, pc, result, steps>>
    /\ index' = index + 1
    /\ \E checked \in Outcomes :
          calls' = Append(calls, Call("run_security_checks", index + 1, checked))

\* security.rs lines 69-71: one iteration over vm.builtin_runners; `index`
\* counts the builtins already checked.  run_security_checks returns a Result
\* and `?` propagates its Err.
RunSecurityCheck ==
    /\ pc = "security_checks"
    /\ index < Len(builtin_runners)
    /\ UNCHANGED config
    /\ index' = index + 1
    /\ \E checked \in Outcomes :
          /\ calls' = Append(calls, Call("run_security_checks", index + 1, checked))
          /\ IF checked = "err"
             THEN Return([kind |-> "BuiltinSecurityError", builtin |-> index + 1])
             ELSE UNCHANGED <<pc, result, steps>>

\* security.rs line 73: the loop is over, Ok(())
ReturnOk ==
    /\ pc = "security_checks"
    /\ index = Len(builtin_runners)
    /\ UNCHANGED <<config, calls, index>>
    /\ Return(Ok)

Next == \/ CheckBuiltinSegments
        \/ CheckProgramSegment
        \/ CheckTemporaryAddresses
        \/ RunSecurityCheck
        \/ ReturnOk

Spec == Init /\ [][Next]_vars

(* ------------------- vocabulary of the properties ---------------------- *)
TypeOK == /\ pc \in {"builtin_bounds", "program_bounds", "temporary_addresses",
                     "security_checks", "done"}
          /\ (pc = "done") = (result # Pending)
          /\ index \in 0..Len(builtin_runners)

Done == pc = "done"

SegmentExists(i) == i >= 0 /\ i < Len(data)
SegmentSize(i) == Len(data[i + 1])

RegisteredBuiltins == {builtin_runners[k] : k \in 1..Len(builtin_runners)}
WithinStopPtr(b) == SegmentExists(b.base) => SegmentSize(b.base) <= b.stop_ptr
ExceedsStopPtr(b) == SegmentExists(b.base) /\ SegmentSize(b.base) > b.stop_ptr

\* Calls made to the collaborators so far.
FetchCalls == SelectSeq(calls, LAMBDA c : c.fn = "get_builtin_segments_info")
AuditCalls == SelectSeq(calls, LAMBDA c : c.fn = "run_security_checks")
\* The builtin bounds were asked for and could not be obtained.
FetchFailed == \E i \in DOMAIN FetchCalls : FetchCalls[i].outcome = "err"
\* No self-audit that was invoked failed / every registered builtin was
\* audited and passed.
NoAuditFailed == \A i \in DOMAIN AuditCalls : AuditCalls[i].outcome = "ok"
AllAuditsPassed == NoAuditFailed /\ Len(AuditCalls) = Len(builtin_runners)

ProgramBaseSet == program_base # None
ProgramBaseUsable == ProgramBaseSet /\ program_base[1].segment_index >= 0
ProgramSegmentExceeds == /\ ProgramBaseUsable
                         /\ SegmentExists(program_base[1].segment_index)
                         /\ SegmentSize(program_base[1].segment_index) > program_len
\* Size of the segment program_base names, in whichever family it lies, is
\* within program_len (an absent segment has no size to exceed it).
NamedProgramSegmentWithin ==
    /\ ProgramBaseSet
    /\ LET s == program_base[1].segment_index
       IN IF s >= 0
          THEN SegmentExists(s) => SegmentSize(s) <= program_len
          ELSE (-s) <= Len(temp_data) => Len(temp_data[-s]) <= program_len

HasTemporarySegment == Len(temp_data) > 0
NegativePositions == {p \in {<<s, o>> : s \in 1..Len(data), o \in 1..MaxCells + 1} :
                         /\ p[2] <= Len(data[p[1]])
                         /\ data[p[1]][p[2]].kind = "RelocatableValue"
                         /\ data[p[1]][p[2]].segment_index < 0}
FirstNegativePosition == CHOOSE p \in NegativePositions :
                            \A q \in NegativePositions :
                                p[1] < q[1] \/ (p[1] = q[1] /\ p[2] <= q[2])
AddressAt(p) == [segment_index |-> data[p[1]][p[2]].segment_index,
                 offset |-> data[p[1]][p[2]].offset]

\* Outcome of each step, stated from the configuration and from what the
\* collaborators answered.
BuiltinStepFails ==
    verify_builtins /\ (FetchFailed \/ \E b \in RegisteredBuiltins : ExceedsStopPtr(b))
ProgramStepFails == ~ProgramBaseUsable \/ ProgramSegmentExceeds
TemporaryStepFails == HasTemporarySegment /\ NegativePositions # {}
AuditStepFails == ~NoAuditFailed

C2_AsStated == (Done /\ ~ProgramBaseSet /\ ~FetchFailed) => result = Err("NoProgBase")

\* C2 (amended): with program_base unset verify fails with NoProgBase whenever
\* the builtin bound check that precedes it passes or is skipped.
C2_NoProgBase ==
    (Done /\ ~ProgramBaseSet /\ ~BuiltinStepFails) => result = Err("NoProgBase")

C2_Witness ==
    /\ Done /\ ~ProgramBaseSet /\ result = Err("NoProgBase")
    /\ verify_builtins /\ Len(builtin_runners) > 0
    /\ NegativePositions # {} /\ HasTemporarySegment

(* ------------------------------- C3 ------------------------------------ *)
\* C3 (as stated): a registered builtin whose segment size exceeds its stop
\* pointer makes verify fail with OutOfBoundsBuiltinSegmentAccess, and that
\* error is never caused by builtins whose size is <= their stop pointer.
C3_AsStated ==
    (Done /\ ~FetchFailed) =>
      /\ (\E b \in RegisteredBuiltins : ExceedsStopPtr(b))
            => result = Err("OutOfBoundsBuiltinSegmentAccess")
      /\ result = Err("OutOfBoundsBuiltinSegmentAccess")
            => \E b \in RegisteredBuiltins : ExceedsStopPtr(b)

\* C3 (amended): the same, when check_builtin_bounds is true (and the bounds
\* could be fetched).
C3_BuiltinOutOfBounds ==
    Done =>
      /\ (/\ verify_builtins
          /\ ~FetchFailed
          /\ \E b \in RegisteredBuiltins : ExceedsStopPtr(b))
            => result = Err("OutOfBoundsBuiltinSegmentAccess")
      /\ result = Err("OutOfBoundsBuiltinSegmentAccess")
            => \E b \in RegisteredBuiltins : ExceedsStopPtr(b)

C3_Witness ==
    /\ Done /\ result = Err("OutOfBoundsBuiltinSegmentAccess")
    /\ \E b, c \in RegisteredBuiltins :
          /\ SegmentExists(b.base) /\ SegmentSize(b.base) = 1 /\ b.stop_ptr = 0
          /\ SegmentExists(c.base) /\ SegmentSize(c.base) = 1 /\ c.stop_ptr = 1

(* ------------------------------- C4 ------------------------------------ *)
\* C4 (as stated): a program segment larger than program_length makes verify
\* fail with OutOfBoundsProgramSegmentAccess.
C4_AsStated ==
    (Done /\ ProgramSegmentExceeds /\ ~FetchFailed)
        => result = Err("OutOfBoundsProgramSegmentAccess")

\* C4 (amended): the same, when the builtin bound check that precedes the
\* program bound check passes or is skipped.
C4_ProgramOutOfBounds ==
    (Done /\ ProgramSegmentExceeds /\ ~BuiltinStepFails)
        => result = Err("OutOfBoundsProgramSegmentAccess")

C4_Witness ==
    /\ Done /\ result = Err("OutOfBoundsProgramSegmentAccess")
    /\ program_len = 0 /\ SegmentSize(program_base[1].segment_index) = 1
    /\ verify_builtins /\ Len(builtin_runners) > 0

(* ------------------------------- C5 ------------------------------------ *)
\* C5 (as stated): with a temporary segment present and a negative-index
\* address in a real cell, verify fails with InvalidMemoryValueTemporaryAddress
\* carrying the first such address in ascending (segment, offset) order.
C5_AsStated ==
    (Done /\ HasTemporarySegment /\ NegativePositions # {} /\ ~FetchFailed)
        => result = [kind |-> "InvalidMemoryValueTemporaryAddress",
                     addr |-> AddressAt(FirstNegativePosition)]

\* C5 (amended): the same, when the builtin bound check and the program bound
\* check that precede the scan both pass.
C5_TemporaryAddress ==
    (Done /\ HasTemporarySegment /\ NegativePositions # {}
          /\ ~BuiltinStepFails /\ ~ProgramStepFails)
        => result = [kind |-> "InvalidMemoryValueTemporaryAddress",
                     addr |-> AddressAt(FirstNegativePosition)]

C5_Witness ==
    /\ Done /\ result.kind = "InvalidMemoryValueTemporaryAddress"
    /\ \E p, q \in NegativePositions : AddressAt(p) # AddressAt(q)
    /\ temp_data = << <<>> >>

C7_ReadOnly == [][config' = config]_vars

C7_Witness ==
    /\ Done /\ result.kind = "InvalidMemoryValueTemporaryAddress"
    /\ Len(builtin_runners) > 0

(* ------------------------------- C8 ------------------------------------ *)
StepOrder == <<"builtin_bounds", "program_bounds", "temporary_addresses", "security_checks">>
StepFails(i) == CASE i = 1 -> BuiltinStepFails
                  [] i = 2 -> ProgramStepFails
                  [] i = 3 -> TemporaryStepFails
                  [] i = 4 -> AuditStepFails
ErrorsOfStep(i) ==
    CASE i = 1 -> {"BuiltinSegmentsInfoError", "OutOfBoundsBuiltinSegmentAccess"}
      [] i = 2 -> {"NoProgBase", "OutOfBoundsProgramSegmentAccess"}
      [] i = 3 -> {"InvalidMemoryValueTemporaryAddress"}
      [] i = 4 -> {"BuiltinSecurityError"}

\* C8: the steps run in the fixed order and fail fast: the steps entered are
\* exactly those up to the earliest failing one, the verdict is that step's
\* error, self-audits are invoked only after steps 1-3 passed, in registration
\* order, and none after the first failing one.
C8_OrderFailFast ==
    /\ steps = SubSeq(StepOrder, 1, Len(steps))
    /\ \A i \in 1..(Len(steps) - 1) : ~StepFails(i)
    /\ AuditCalls # <<>> =>
          ~BuiltinStepFails /\ ~ProgramStepFails /\ ~TemporaryStepFails
    /\ \A i \in 1..Len(AuditCalls) :
          /\ AuditCalls[i].builtin = i
          /\ i < Len(AuditCalls) => AuditCalls[i].outcome = "ok"
    /\ Done =>
          /\ IF StepFails(Len(steps))
             THEN result.kind \in ErrorsOfStep(Len(steps))
             ELSE Len(steps) = 4 /\ result = Ok
          /\ result.kind = "BuiltinSecurityError" =>
                /\ result.builtin = Len(AuditCalls)
                /\ AuditCalls[result.builtin].outcome = "err"
          /\ result = Ok => Len(AuditCalls) = Len(builtin_runners)

C8_Witness ==
    /\ Done /\ result.kind = "BuiltinSecurityError"
    /\ result.builtin = 1 /\ Len(builtin_runners) = 2
    /\ verify_builtins /\ HasTemporarySegment

\* Several steps would fail: the earliest one decides.
C8_WitnessEarliest ==
    /\ Done /\ result = Err("OutOfBoundsBuiltinSegmentAccess")
    /\ ProgramStepFails /\ TemporaryStepFails

(* ------------------------------- C9 ------------------------------------ *)
\* C9: with check_builtin_bounds false no builtin bound is fetched or compared
\* and verify never returns OutOfBoundsBuiltinSegmentAccess; the program bound
\* check still runs, and whenever it runs its outcome is decided by
\* program_base, the program segment and program_length alone.
C9_FlagFalse ==
    Done =>
      /\ ~verify_builtins =>
            /\ FetchCalls = <<>>
            /\ result.kind \notin ErrorsOfStep(1)
            /\ Len(steps) >= 2 /\ steps[2] = "program_bounds"
      /\ Len(steps) >= 2 =>
            /\ result = Err("NoProgBase") <=> ~ProgramBaseUsable
            /\ result = Err("OutOfBoundsProgramSegmentAccess") <=> ProgramSegmentExceeds

C9_Witness ==
    /\ Done /\ ~verify_builtins
    /\ \E b \in RegisteredBuiltins : ExceedsStopPtr(b)
    /\ result = Err("OutOfBoundsProgramSegmentAccess")

(* ------------------------------- C10 ----------------------------------- *)
\* C10: success implies program_base is set with a non-negative segment index,
\* the program segment is absent or within program_length, with the flag true
\* every builtin segment is absent or within its stop pointer, with a temporary
\* segment present no real cell holds a negative-index address, and every
\* registered builtin's self-audit was run and succeeded.
C10_Soundness ==
    (Done /\ result = Ok) =>
      /\ ProgramBaseSet /\ program_base[1].segment_index >= 0
      /\ (~SegmentExists(program_base[1].segment_index)
             \/ SegmentSize(program_base[1].segment_index) <= program_len)
      /\ verify_builtins =>
            \A b \in RegisteredBuiltins :
                ~SegmentExists(b.base) \/ SegmentSize(b.base) <= b.stop_ptr
      /\ HasTemporarySegment => NegativePositions = {}
      /\ AllAuditsPassed

C10_Witness ==
    /\ Done /\ result = Ok /\ verify_builtins /\ HasTemporarySegment
    /\ ~SegmentExists(program_base[1].segment_index)
    /\ \E b \in RegisteredBuiltins : ~SegmentExists(b.base) /\ b.stop_ptr = 0
====
